---- MODULE Spec2Model ----
(***************************************************************************)
(* Model of the Mezmerize B1 controller's attenuation mapping              *)
(* (src/src/main.cpp, getAttenuation and setVolume).                       *)
(*                                                                         *)
(* getAttenuation computes in single-precision floating point and returns  *)
(* a uint8_t, so the model carries the arithmetic as IEEE-754 binary32     *)
(* values: every operation is the exact result rounded to 24 significant   *)
(* bits, ties to even, and the final conversion to uint8_t truncates.      *)
(***************************************************************************)
EXTENDS Integers, Sequences, FiniteSets, TLC

(***************************************************************************)
(* Bounds of the checked input space.                                      *)
(***************************************************************************)
MaxSteps == 18
MaxMinDb == 1
MaxDb == 31
MaxOverStep == 1
MaxCtlSteps == 2
MaxCtlDb == 2
MenuInputs == 1
MaxOutside == 2

(***************************************************************************)
(* Program constants.                                                      *)
(***************************************************************************)
MUTE_CODE == 223
MaxLargeStep == 4
DefaultVolumeSteps == 60
DefaultMinAttenuation == 0
DefaultMaxAttenuation == 60

(***************************************************************************)
(* binary32 values.  A finite value is sg * m * 2^e with sg in {1,-1} and  *)
(* either m = 0 or 2^23 <= m < 2^24.  PosInf is the result of dividing a   *)
(* positive value by zero.                                                 *)
(***************************************************************************)
MantBits == 24

FZero == [sg |-> 1, m |-> 0, e |-> 0, inf |-> FALSE]

PosInf == [sg |-> 1, m |-> 0, e |-> 0, inf |-> TRUE]

\* number of significant bits of n, for 0 <= n < 2^31, by halving the width
BitLen2(n) == IF n >= 2 THEN 2 ELSE n

BitLen4(n) == IF n >= 4 THEN 2 + BitLen2(n \div 4) ELSE BitLen2(n)

BitLen8(n) == IF n >= 16 THEN 4 + BitLen4(n \div 16) ELSE BitLen4(n)

BitLen16(n) == IF n >= 256 THEN 8 + BitLen8(n \div 256) ELSE BitLen8(n)

BitLen(n) == IF n >= 65536 THEN 16 + BitLen16(n \div 65536) ELSE BitLen16(n)

\* number of trailing zero bits of n, for 0 < n < 2^31, by halving the width
TrailingZeros2(n) == IF n % 2 = 0 THEN 1 ELSE 0

TrailingZeros4(n) == IF n % 4 = 0 THEN 2 + TrailingZeros2(n \div 4) ELSE TrailingZeros2(n)

TrailingZeros8(n) == IF n % 16 = 0 THEN 4 + TrailingZeros4(n \div 16) ELSE TrailingZeros4(n)

TrailingZeros16(n) == IF n % 256 = 0 THEN 8 + TrailingZeros8(n \div 256) ELSE TrailingZeros8(n)

TrailingZeros(n) == IF n % 65536 = 0 THEN 16 + TrailingZeros16(n \div 65536) ELSE TrailingZeros16(n)

\* Round sg * (m + sticky) * 2^e to binary32, nearest, ties to even.
\* sticky stands for a discarded positive amount below one unit of m; it is
\* only passed with m >= 2^25, so that it lies below the rounding position.
FRound(sg, m, e, sticky) ==
  IF m = 0 THEN FZero
  ELSE LET n == BitLen(m) IN
    IF n <= MantBits
    THEN [sg |-> sg, m |-> m * 2^(MantBits - n), e |-> e - (MantBits - n), inf |-> FALSE]
    ELSE LET k    == n - MantBits
             q    == m \div (2^k)
             rem  == m % (2^k)
             half == 2^(k-1)
             up   == rem > half \/ (rem = half /\ (sticky \/ q % 2 = 1))
             q2   == IF up THEN q + 1 ELSE q
         IN IF q2 = 2^MantBits
            THEN [sg |-> sg, m |-> 2^(MantBits-1), e |-> e + k + 1, inf |-> FALSE]
            ELSE [sg |-> sg, m |-> q2, e |-> e + k, inf |-> FALSE]

\* conversion of an integer to float (uint8_t and int operands are promoted)
FInt(n) == FRound(IF n < 0 THEN -1 ELSE 1, IF n < 0 THEN -n ELSE n, 0, FALSE)

FNeg(a) == [a EXCEPT !.sg = -a.sg]

\* mantissa and exponent with the trailing zero bits of the mantissa removed
OddMant(a) == a.m \div (2^TrailingZeros(a.m))

OddExp(a) == a.e + TrailingZeros(a.m)

\* a * b.  The exact product is formed from the reduced mantissas; one of the
\* operands is always sizeOfLargeSteps, sizeOfLargeSteps/2 or a uint8_t, so
\* the product stays below 2^30.
FMul(a, b) ==
  IF a.m = 0 \/ b.m = 0 THEN FZero
  ELSE FRound(a.sg * b.sg, OddMant(a) * OddMant(b), OddExp(a) + OddExp(b), FALSE)

\* a / b.  The dividend is scaled to 30 bits, the divisor's reduced mantissa
\* is below 32 (it is 2 or sizeOfLargeSteps/2), so the quotient keeps at least
\* two bits below the rounding position and the remainder is the sticky bit.
\* The only division by zero the code performs has a positive dividend.
FDiv(a, b) ==
  IF b.m = 0 THEN PosInf
  ELSE IF a.m = 0 THEN FZero
  ELSE LET p   == 30 - BitLen(a.m)
           num == a.m * 2^p
           den == OddMant(b)
       IN FRound(a.sg * b.sg, num \div den, a.e - p - OddExp(b), num % den # 0)

\* a + b for finite a, b.  The operand with the larger exponent is shifted
\* left by at most five bits; what the other operand loses when it is aligned
\* is the sticky amount.
FAdd(a, b) ==
  IF a.m = 0 THEN b
  ELSE IF b.m = 0 THEN a
  ELSE LET hi  == IF a.e >= b.e THEN a ELSE b
           lo  == IF a.e >= b.e THEN b ELSE a
           d   == hi.e - lo.e
           sh  == IF d <= 5 THEN d ELSE 5
           big == hi.m * 2^sh
           dr  == d - sh
           sml == IF dr >= MantBits THEN 0 ELSE lo.m \div (2^dr)
           lost == IF dr >= MantBits THEN TRUE ELSE lo.m % (2^dr) # 0
           eu  == hi.e - sh
       IN IF hi.sg = lo.sg
          THEN FRound(hi.sg, big + sml, eu, lost)
          ELSE IF big > sml \/ (big = sml /\ lost)
               THEN IF lost THEN FRound(hi.sg, big - sml - 1, eu, TRUE)
                            ELSE FRound(hi.sg, big - sml, eu, FALSE)
               ELSE IF big = sml THEN FZero
               ELSE FRound(lo.sg, sml - big, eu, FALSE)

FSub(a, b) == FAdd(a, FNeg(b))

\* a < b
FLess(a, b) ==
  IF a.inf THEN FALSE
  ELSE IF b.inf THEN TRUE
  ELSE LET c == FSub(a, b) IN c.m # 0 /\ c.sg = -1

\* a <= b
FLeq(a, b) == ~FLess(b, a)

\* the macros min(a,b) ((a)<(b)?(a):(b)) and max(a,b) ((a)>(b)?(a):(b))
FMin(a, b) == IF FLess(a, b) THEN a ELSE b

FMax(a, b) == IF FLess(b, a) THEN a ELSE b

\* integer part of |a|, for |a| below 2^31
FTrunc(a) ==
  IF a.m = 0 THEN 0
  ELSE IF a.e >= 0 THEN a.m * 2^(a.e)
  ELSE IF -a.e >= MantBits THEN 0
  ELSE a.m \div (2^(-a.e))

\* conversion of the float result to the uint8_t return value: the fraction
\* is discarded (toward zero) and the low eight bits are kept
FToByte(a) ==
  IF a.m = 0 THEN 0
  ELSE IF a.e >= 8 THEN 0
  ELSE IF a.e >= 0 THEN (a.sg * (a.m % 256) * 2^(a.e)) % 256
  ELSE (a.sg * FTrunc(a)) % 256

(***************************************************************************)
(* getAttenuation, src/src/main.cpp lines 458-477.                         *)
(***************************************************************************)

\* Pow2Floor with the call of pow left out: round(r/s - 0.5)
Pow2FloorLinear(r, s) ==
  IF r < 0 THEN 0
  ELSE IF r \div s > MaxLargeStep THEN MaxLargeStep + 1
  ELSE r \div s

\* The value (long)(pow(2.0, r/s) - 0.5 + 0.5) of Arduino's round macro on
\* line 462, for s >= 1 and r, s below 256, with pow rounded correctly:
\* the largest integer c with c^s <= 2^r.  3^s <= 2^r iff 485*s <= 306*r and 5^s <= 2^r iff
\* 137*s <= 59*r for all such r and s (485/306 and 137/59 are convergents
\* of log2(3) and log2(5)).  A value above MaxLargeStep is recorded as
\* MaxLargeStep + 1: the code only compares it with 4.
Pow2Floor(r, s) ==
  IF r < 0 THEN 0
  ELSE IF 137 * s <= 59 * r THEN MaxLargeStep + 1
  ELSE IF 2 * s <= r THEN 4
  ELSE IF 485 * s <= 306 * r THEN 3
  ELSE IF s <= r THEN 2
  ELSE 1

\* What the conversion to long yields when pow(2.0, r/s) is 2^31 or more
\* (undefined behaviour): LONG_MIN or LONG_MAX, converted back to float.
LongOverflow == {"LONG_MIN", "LONG_MAX"}

FLongOverflow(conv) ==
  [sg |-> IF conv = "LONG_MIN" THEN -1 ELSE 1, m |-> 2^(MantBits-1), e |-> 8, inf |-> FALSE]

\* float att_dB = max_dB - min_dB;
att_dB(min_dB, max_dB) == FInt(max_dB - min_dB)

\* float sizeOfLargeSteps = round(pow(2.0, att_dB / steps) - 0.5);
sizeOfLargeSteps(steps, min_dB, max_dB, conv) ==
  IF (max_dB - min_dB) >= 31 * steps
  THEN FLongOverflow(conv)
  ELSE FInt(Pow2Floor(max_dB - min_dB, steps))

\* sizeOfSmallSteps with the division by 2 left out
sizeOfSmallStepsFull(steps, min_dB, max_dB, conv) ==
  sizeOfLargeSteps(steps, min_dB, max_dB, conv)

\* sizeOfLargeSteps / 2
sizeOfSmallSteps(steps, min_dB, max_dB, conv) ==
  FDiv(sizeOfLargeSteps(steps, min_dB, max_dB, conv), FInt(2))

\* float numberOfSmallSteps = (sizeOfLargeSteps * steps - att_dB) / (sizeOfLargeSteps / 2);
numberOfSmallSteps(steps, min_dB, max_dB, conv) ==
  FDiv(FSub(FMul(sizeOfLargeSteps(steps, min_dB, max_dB, conv), FInt(steps)),
            att_dB(min_dB, max_dB)),
       sizeOfSmallSteps(steps, min_dB, max_dB, conv))

\* Feasible without the test selStep <= steps
FeasibleNoStepCheck(steps, selStep, min_dB, max_dB, conv) ==
  /\ FLeq(numberOfSmallSteps(steps, min_dB, max_dB, conv), FInt(steps))
  /\ FLeq(sizeOfLargeSteps(steps, min_dB, max_dB, conv), FInt(MaxLargeStep))

\* Feasible with the limit on sizeOfLargeSteps off by one
FeasibleLargeStep5(steps, selStep, min_dB, max_dB, conv) ==
  /\ FLeq(numberOfSmallSteps(steps, min_dB, max_dB, conv), FInt(steps))
  /\ selStep <= steps
  /\ FLeq(sizeOfLargeSteps(steps, min_dB, max_dB, conv), FInt(MaxLargeStep + 1))

\* Feasible without the test steps >= numberOfSmallSteps
FeasibleNoSmallStepCheck(steps, selStep, min_dB, max_dB, conv) ==
  /\ selStep <= steps
  /\ FLeq(sizeOfLargeSteps(steps, min_dB, max_dB, conv), FInt(MaxLargeStep))

\* the condition of the if statement, lines 465-468
Feasible(steps, selStep, min_dB, max_dB, conv) ==
  /\ FLeq(numberOfSmallSteps(steps, min_dB, max_dB, conv), FInt(steps))
  /\ selStep <= steps
  /\ FLeq(sizeOfLargeSteps(steps, min_dB, max_dB, conv), FInt(MaxLargeStep))

\* AttenuationValue without the final * 2
AttenuationValueNoDouble(steps, selStep, min_dB, max_dB, conv) ==
  LET L == sizeOfLargeSteps(steps, min_dB, max_dB, conv)
      h == sizeOfSmallSteps(steps, min_dB, max_dB, conv)
      N == numberOfSmallSteps(steps, min_dB, max_dB, conv)
      small == FMul(FMin(FInt(selStep), N), h)
      large == FMul(FMax(FSub(FInt(selStep), N), FZero), L)
  IN FSub(FInt(max_dB), FAdd(small, large))

\* AttenuationValue with line 470 (selStep = steps - selStep) not commented out
AttenuationValueReversed(steps, selStep, min_dB, max_dB, conv) ==
  LET L == sizeOfLargeSteps(steps, min_dB, max_dB, conv)
      h == sizeOfSmallSteps(steps, min_dB, max_dB, conv)
      N == numberOfSmallSteps(steps, min_dB, max_dB, conv)
      small == FMul(FMin(FInt(steps - selStep), N), h)
      large == FMul(FMax(FSub(FInt(steps - selStep), N), FZero), L)
  IN FMul(FSub(FInt(max_dB), FAdd(small, large)), FInt(2))

\* the float value of the return expression on line 471
AttenuationValue(steps, selStep, min_dB, max_dB, conv) ==
  LET L == sizeOfLargeSteps(steps, min_dB, max_dB, conv)
      h == sizeOfSmallSteps(steps, min_dB, max_dB, conv)
      N == numberOfSmallSteps(steps, min_dB, max_dB, conv)
      small == FMul(FMin(FInt(selStep), N), h)
      large == FMul(FMax(FSub(FInt(selStep), N), FZero), L)
  IN FMul(FSub(FInt(max_dB), FAdd(small, large)), FInt(2))

getAttenuation(steps, selStep, min_dB, max_dB, conv) ==
  IF Feasible(steps, selStep, min_dB, max_dB, conv)
  THEN FToByte(AttenuationValue(steps, selStep, min_dB, max_dB, conv))
  ELSE MUTE_CODE

(***************************************************************************)
(* State.  CurrentSettings and CurrentRuntimeSettings are the controller's *)
(* globals (the fields the attenuation mapping reads or writes, and the    *)
(* runtime fields next to them).  args is the argument list of a direct    *)
(* call of getAttenuation, ret its return value (-1 before the first       *)
(* call) and pc the operation that ran last.  The outcome of the           *)
(* out-of-range conversion to long is chosen anew in every call.           *)
(***************************************************************************)
VARIABLES CurrentSettings, CurrentRuntimeSettings, args, ret, pc,
          appMode, eeprom, nextInput, cmdId, Value, NewValue,
          vcc, millis, last_KEY_ONOFF, sinceOnOff

vars == <<CurrentSettings, CurrentRuntimeSettings, args, ret, pc,
          appMode, eeprom, nextInput, cmdId, Value, NewValue,
          vcc, millis, last_KEY_ONOFF, sinceOnOff>>

\* no editor is open
NoValue == [field |-> "none", input |-> 0]

\* the locals of the loop and of the menu editors
locals == <<nextInput, cmdId, Value, NewValue>>

\* the last supply voltage loop() has measured, the clock, the time of the
\* last accepted KEY_ONOFF and, for the properties, the milliseconds really
\* elapsed since it (OnOffGuardMs standing for that or more)
timers == <<vcc, millis, last_KEY_ONOFF, sinceOnOff>>

\* a KEY_ONOFF within 5000 ms of the last accepted one is cancelled
OnOffGuardMs == 5000

\* unsigned long is 32 bits wide, kept as two 16-bit halves
HalfWord == 65536

\* the unsigned long n, 0 <= n < 2^31
ULong(n) == [hi |-> n \div HalfWord, lo |-> n % HalfWord]

\* a + n in unsigned long arithmetic, 0 <= n < 2^30
ULongAdd(a, n) ==
  LET l == a.lo + (n % HalfWord)
  IN  [hi |-> (a.hi + (n \div HalfWord) + (l \div HalfWord)) % HalfWord,
       lo |-> l % HalfWord]

\* a < b for unsigned long
ULongLess(a, b) == a.hi < b.hi \/ (a.hi = b.hi /\ a.lo < b.lo)

\* the timers after the C runtime has initialised the globals
TimersAtBoot ==
  /\ millis = ULong(0)
  /\ last_KEY_ONOFF = ULong(0)

\* the profile written by setCurrentSettingsToDefault
DefaultProfiles ==
  { [steps |-> DefaultVolumeSteps, selStep |-> k,
     min_dB |-> DefaultMinAttenuation, max_dB |-> DefaultMaxAttenuation] :
    k \in 0..(DefaultVolumeSteps + MaxOverStep) }

\* the argument lists the calls are checked on
Inputs ==
  { a \in [steps : 1..MaxSteps, selStep : 0..(MaxSteps + MaxOverStep),
           min_dB : 0..MaxMinDb, max_dB : 0..MaxDb] :
      a.selStep <= a.steps + MaxOverStep }
  \cup DefaultProfiles

\* CurrentRuntimeSettings as setCurrentSettingsToDefault leaves it, on step v
RuntimeSettingsAt(v) ==
  [CurrentInput |-> 0, CurrentVolume |-> v, CurrentAttenuation |-> 0,
   Muted |-> FALSE, PrevSelectedInput |-> 0]

InitAtt ==
  /\ args \in Inputs
  /\ CurrentSettings = [VolumeSteps |-> args.steps,
                        MinAttenuation |-> args.min_dB,
                        MaxAttenuation |-> args.max_dB]
  /\ CurrentRuntimeSettings = RuntimeSettingsAt(args.selStep)
  /\ ret = -1
  /\ pc = "start"
  /\ appMode = "APP_NORMAL_MODE"
  /\ eeprom = [settings |-> CurrentSettings, runtime |-> CurrentRuntimeSettings]
  /\ nextInput = 0
  /\ cmdId = "none"
  /\ Value = NoValue
  /\ NewValue = 0
  /\ vcc = 0
  /\ TimersAtBoot
  /\ sinceOnOff = OnOffGuardMs

\* a call getAttenuation(steps, selStep, min_dB, max_dB)
CallGetAttenuation ==
  /\ \E conv \in LongOverflow :
       ret' = getAttenuation(args.steps, args.selStep, args.min_dB, args.max_dB, conv)
  /\ pc' = "getAttenuation"
  /\ UNCHANGED <<CurrentSettings, CurrentRuntimeSettings, args, appMode,
                 eeprom, locals, timers>>

\* setVolume that also limits CurrentVolume to the number of steps
setVolumeClamps ==
  /\ \E conv \in LongOverflow :
       CurrentRuntimeSettings' =
         [CurrentRuntimeSettings EXCEPT
            !.CurrentVolume = IF @ > CurrentSettings.VolumeSteps
                              THEN CurrentSettings.VolumeSteps ELSE @,
            !.CurrentAttenuation =
              getAttenuation(CurrentSettings.VolumeSteps,
                             CurrentRuntimeSettings.CurrentVolume,
                             CurrentSettings.MinAttenuation,
                             CurrentSettings.MaxAttenuation, conv)]
  /\ pc' = "setVolume"
  /\ UNCHANGED <<CurrentSettings, args, ret, appMode, eeprom, locals, timers>>

\* void setVolume(), lines 479-483
setVolume ==
  /\ \E conv \in LongOverflow :
       CurrentRuntimeSettings' =
         [CurrentRuntimeSettings EXCEPT !.CurrentAttenuation =
            getAttenuation(CurrentSettings.VolumeSteps,
                           CurrentRuntimeSettings.CurrentVolume,
                           CurrentSettings.MinAttenuation,
                           CurrentSettings.MaxAttenuation, conv)]
  /\ pc' = "setVolume"
  /\ UNCHANGED <<CurrentSettings, args, ret, appMode, eeprom, locals, timers>>

\* calls of the mapping function alone
NextAtt == CallGetAttenuation

SpecAtt == InitAtt /\ [][NextAtt]_vars

\* calls of the mapping function and of its caller setVolume, in any order
NextVol == CallGetAttenuation \/ setVolume

SpecVol == InitAtt /\ [][NextVol]_vars

(***************************************************************************)
(* The controller: setup(), loop() and processMenuCommand().  Of the       *)
(* settings the model keeps the fields the volume and input handling read. *)
(***************************************************************************)

\* #define VERSION 0.91, in hundredths
VERSION == 91

\* byte arithmetic
Byte(n) == n % 256

\* the indices of CurrentSettings.Input and CurrentRuntimeSettings.InputLastVol
InputIndex == 0..5

\* the bytes a read outside an array is checked with
GarbageBytes == {0, 255}

\* Settings as setCurrentSettingsToDefault writes it
DefaultSettings ==
  [VolumeSteps |-> DefaultVolumeSteps,
   MinAttenuation |-> DefaultMinAttenuation,
   MaxAttenuation |-> DefaultMaxAttenuation,
   MaxStartVolume |-> DefaultVolumeSteps,
   RecallSetLevel |-> TRUE,
   Input |-> [i \in InputIndex |->
                [Active |-> TRUE, MaxVol |-> DefaultVolumeSteps, MinVol |-> 0]],
   Version |-> VERSION]

\* RuntimeSettings as setCurrentSettingsToDefault writes it
DefaultRuntimeSettings ==
  [CurrentInput |-> 0, CurrentVolume |-> 0, CurrentAttenuation |-> 0,
   Muted |-> FALSE, InputLastVol |-> [i \in InputIndex |-> 0],
   PrevSelectedInput |-> 0, Version |-> VERSION]

\* the globals before setup has read the EEPROM: zero-initialised
ZeroSettings ==
  [VolumeSteps |-> 0, MinAttenuation |-> 0, MaxAttenuation |-> 0,
   MaxStartVolume |-> 0, RecallSetLevel |-> FALSE,
   Input |-> [i \in InputIndex |-> [Active |-> FALSE, MaxVol |-> 0, MinVol |-> 0]],
   Version |-> 0]

ZeroRuntimeSettings ==
  [CurrentInput |-> 0, CurrentVolume |-> 0, CurrentAttenuation |-> 0,
   Muted |-> FALSE, InputLastVol |-> [i \in InputIndex |-> 0],
   PrevSelectedInput |-> 0, Version |-> 0]

\* the runtime settings after setVolume()
setVolumeIn(S, R, conv) ==
  [R EXCEPT !.CurrentAttenuation =
     getAttenuation(S.VolumeSteps, R.CurrentVolume,
                    S.MinAttenuation, S.MaxAttenuation, conv)]

\* Input[i].Active as the code reads it; outside the array the read returns
\* whatever the memory holds
ReadActive(S, i) ==
  IF i \in InputIndex THEN {S.Input[i].Active} ELSE BOOLEAN

\* InputLastVol[i] as the code reads it
ReadInputLastVol(R, i) ==
  IF i \in InputIndex THEN {R.InputLastVol[i]} ELSE GarbageBytes

(***************************************************************************)
(* EEPROM images.  The settings are written after every completed edit and *)
(* the runtime settings on standby and power loss, so an image holds the   *)
(* defaults changed by menu edits (steps, attenuation range, deactivated   *)
(* inputs) and the input and volume in use when it was written.            *)
(***************************************************************************)

\* the settings after the menu edits VolumeSteps = steps (which limits MaxVol
\* and MaxStartVolume), Min/Max attenuation and the deactivation of the
\* inputs outside active
StoredSettings(steps, min_dB, max_dB, active, version) ==
  LET lim == IF DefaultVolumeSteps > steps THEN steps ELSE DefaultVolumeSteps
  IN  [DefaultSettings EXCEPT
         !.VolumeSteps = steps,
         !.MinAttenuation = min_dB,
         !.MaxAttenuation = max_dB,
         !.MaxStartVolume = lim,
         !.Input = [i \in InputIndex |->
                      [Active |-> i \in active, MaxVol |-> lim, MinVol |-> 0]],
         !.Version = version]

\* the runtime settings written with input cur selected at volume vol, the
\* other inputs last used at volume other
StoredRuntimeSettings(cur, vol, other, version) ==
  [DefaultRuntimeSettings EXCEPT
     !.CurrentInput = cur,
     !.CurrentVolume = vol,
     !.InputLastVol = [i \in InputIndex |-> IF i = cur THEN vol ELSE other],
     !.Version = version]

\* the images with the given step counts, attenuation ranges up to maxDb,
\* activation patterns, volumes and versions
Images(stepCounts, maxDb, patterns, volumes, others, versions) ==
  { [settings |-> StoredSettings(s, lo, hi, act, vs),
     runtime |-> StoredRuntimeSettings(cur, vol, other, vr)] :
      s \in stepCounts, lo \in 0..maxDb, hi \in 1..maxDb, act \in patterns,
      cur \in InputIndex, vol \in volumes, other \in others,
      vs \in versions, vr \in versions }

\* an image the controller can have written: the selected input is active,
\* the volumes within the steps, the attenuation range not empty
Consistent(img) ==
  /\ img.settings.Input[img.runtime.CurrentInput].Active
  /\ \A i \in InputIndex : img.runtime.InputLastVol[i] <= img.settings.VolumeSteps
  /\ img.settings.MinAttenuation < img.settings.MaxAttenuation

\* power-on: the globals as the C runtime initialises them, any image in the
\* EEPROM
InitOn(images) ==
  /\ eeprom \in {img \in images : Consistent(img)}
  /\ CurrentSettings = ZeroSettings
  /\ CurrentRuntimeSettings = ZeroRuntimeSettings
  /\ appMode = "APP_NORMAL_MODE"
  /\ pc = "reset"
  /\ args = [steps |-> 1, selStep |-> 0, min_dB |-> 0, max_dB |-> 0]
  /\ ret = -1
  /\ nextInput = 0
  /\ cmdId = "none"
  /\ Value = NoValue
  /\ NewValue = 0
  /\ vcc = 0
  /\ TimersAtBoot
  /\ sinceOnOff = OnOffGuardMs

\* setup that validates the version of the settings block only
setupSettingsVersionOnly ==
  /\ pc = "reset"
  /\ IF eeprom.settings.Version # VERSION
       THEN /\ eeprom' = [settings |-> DefaultSettings,
                          runtime |-> DefaultRuntimeSettings]
            /\ CurrentSettings' = ZeroSettings
            /\ CurrentRuntimeSettings' = ZeroRuntimeSettings
            /\ pc' = "reset"
       ELSE /\ CurrentSettings' = eeprom.settings
            /\ \E conv \in LongOverflow :
                 CurrentRuntimeSettings' =
                   setVolumeIn(eeprom.settings, eeprom.runtime, conv)
            /\ pc' = "loop"
            /\ UNCHANGED eeprom
  /\ appMode' = "APP_NORMAL_MODE"
  /\ UNCHANGED <<args, ret, locals, timers>>

\* void setup(), lines 416-456, with writeDefaultSettingsToEEPROM and reboot
setup ==
  /\ pc = "reset"
  /\ IF eeprom.settings.Version # VERSION \/ eeprom.runtime.Version # VERSION
       THEN /\ eeprom' = [settings |-> DefaultSettings,
                          runtime |-> DefaultRuntimeSettings]
            /\ CurrentSettings' = ZeroSettings
            /\ CurrentRuntimeSettings' = ZeroRuntimeSettings
            /\ pc' = "reset"
       ELSE /\ CurrentSettings' = eeprom.settings
            /\ \E conv \in LongOverflow :
                 CurrentRuntimeSettings' =
                   setVolumeIn(eeprom.settings, eeprom.runtime, conv)
            /\ pc' = "loop"
            /\ UNCHANGED eeprom
  /\ appMode' = "APP_NORMAL_MODE"
  /\ UNCHANGED <<args, ret, locals, timers>>

\* loop() is about to read the next key in mode m.  The model follows the
\* controller while the selected input number is one of the six inputs.
AtLoop(m) ==
  /\ pc = "loop"
  /\ appMode = m
  /\ CurrentRuntimeSettings.CurrentInput \in InputIndex

\* KEY_UP that raises the volume while muted
KEY_UPWhileMuted ==
  /\ AtLoop("APP_NORMAL_MODE")
  /\ LET S == CurrentSettings
         R == CurrentRuntimeSettings
     IN  IF R.CurrentVolume < S.Input[R.CurrentInput].MaxVol
           THEN \E conv \in LongOverflow :
                  CurrentRuntimeSettings' =
                    setVolumeIn(S, [R EXCEPT
                                      !.CurrentVolume = Byte(R.CurrentVolume + 1),
                                      !.InputLastVol[R.CurrentInput] =
                                         Byte(R.CurrentVolume + 1)], conv)
           ELSE UNCHANGED CurrentRuntimeSettings
  /\ UNCHANGED <<CurrentSettings, args, ret, pc, appMode, eeprom, locals,
                 timers>>

\* loop(), case KEY_UP, lines 757-769
KEY_UP ==
  /\ AtLoop("APP_NORMAL_MODE")
  /\ LET S == CurrentSettings
         R == CurrentRuntimeSettings
     IN  IF ~R.Muted /\ R.CurrentVolume < S.Input[R.CurrentInput].MaxVol
           THEN \E conv \in LongOverflow :
                  CurrentRuntimeSettings' =
                    setVolumeIn(S, [R EXCEPT
                                      !.CurrentVolume = Byte(R.CurrentVolume + 1),
                                      !.InputLastVol[R.CurrentInput] =
                                         Byte(R.CurrentVolume + 1)], conv)
           ELSE UNCHANGED CurrentRuntimeSettings
  /\ UNCHANGED <<CurrentSettings, args, ret, pc, appMode, eeprom, locals,
                 timers>>

\* loop(), case KEY_DOWN, lines 770-781
KEY_DOWN ==
  /\ AtLoop("APP_NORMAL_MODE")
  /\ LET S == CurrentSettings
         R == CurrentRuntimeSettings
     IN  IF ~R.Muted /\ R.CurrentVolume > S.Input[R.CurrentInput].MinVol
           THEN \E conv \in LongOverflow :
                  CurrentRuntimeSettings' =
                    setVolumeIn(S, [R EXCEPT
                                      !.CurrentVolume = Byte(R.CurrentVolume + 255),
                                      !.InputLastVol[R.CurrentInput] =
                                         Byte(R.CurrentVolume + 255)], conv)
           ELSE UNCHANGED CurrentRuntimeSettings
  /\ UNCHANGED <<CurrentSettings, args, ret, pc, appMode, eeprom, locals,
                 timers>>

\* loop(), case KEY_MUTE, lines 887-913
KEY_MUTE ==
  /\ AtLoop("APP_NORMAL_MODE")
  /\ CurrentRuntimeSettings' =
       [CurrentRuntimeSettings EXCEPT !.Muted = ~CurrentRuntimeSettings.Muted]
  /\ UNCHANGED <<CurrentSettings, args, ret, pc, appMode, eeprom, locals,
                 timers>>

\* the runtime settings after the change to input n, lines 814-822 and
\* 863-870: nothing changes when n is the current input
SwitchTo(S, R, n) ==
  IF R.CurrentInput # n
    THEN { [R EXCEPT !.PrevSelectedInput = R.CurrentInput,
                     !.CurrentInput = n,
                     !.CurrentVolume = IF S.RecallSetLevel THEN v ELSE @] :
             v \in ReadInputLastVol(R, n) }
    ELSE {R}

\* loop(), cases KEY_1 .. KEY_6, lines 830-883
KEY_1to6 ==
  /\ AtLoop("APP_NORMAL_MODE")
  /\ \E inputNumber \in InputIndex :
       IF CurrentSettings.Input[inputNumber].Active
         THEN CurrentRuntimeSettings' \in
                SwitchTo(CurrentSettings, CurrentRuntimeSettings, inputNumber)
         ELSE UNCHANGED CurrentRuntimeSettings
  /\ UNCHANGED <<CurrentSettings, args, ret, pc, appMode, eeprom, locals,
                 timers>>

\* loop(), case KEY_RIGHT up to the while loop, lines 786-791
KEY_RIGHT ==
  /\ AtLoop("APP_NORMAL_MODE")
  /\ nextInput' = IF CurrentRuntimeSettings.CurrentInput = 5 THEN 0
                  ELSE Byte(CurrentRuntimeSettings.CurrentInput + 1)
  /\ pc' = "KEY_RIGHT"
  /\ UNCHANGED <<CurrentSettings, CurrentRuntimeSettings, args, ret,
                 appMode, eeprom, cmdId, Value, NewValue, timers>>

\* one pass of the while loop of KEY_RIGHT that skips nextInput, lines 792-797
WhileRightNoWrap ==
  /\ pc = "KEY_RIGHT"
  /\ FALSE \in ReadActive(CurrentSettings, nextInput)
  /\ nextInput' = Byte(nextInput + 1)
  /\ UNCHANGED <<CurrentSettings, CurrentRuntimeSettings, args, ret, pc,
                 appMode, eeprom, cmdId, Value, NewValue, timers>>

\* one pass of the while loop of KEY_RIGHT, lines 792-797
WhileRight ==
  /\ pc = "KEY_RIGHT"
  /\ FALSE \in ReadActive(CurrentSettings, nextInput)
  /\ nextInput' = IF Byte(nextInput + 1) > 5 THEN 0 ELSE Byte(nextInput + 1)
  /\ UNCHANGED <<CurrentSettings, CurrentRuntimeSettings, args, ret, pc,
                 appMode, eeprom, cmdId, Value, NewValue, timers>>

\* loop(), case KEY_LEFT up to the while loop, lines 801-804
KEY_LEFT ==
  /\ AtLoop("APP_NORMAL_MODE")
  /\ nextInput' = IF CurrentRuntimeSettings.CurrentInput = 0 THEN 5
                  ELSE Byte(CurrentRuntimeSettings.CurrentInput + 255)
  /\ pc' = "KEY_LEFT"
  /\ UNCHANGED <<CurrentSettings, CurrentRuntimeSettings, args, ret,
                 appMode, eeprom, cmdId, Value, NewValue, timers>>

\* one pass of the while loop of KEY_LEFT, lines 805-811: the test is on
\* CurrentInput, not on nextInput
WhileLeft ==
  /\ pc = "KEY_LEFT"
  /\ FALSE \in ReadActive(CurrentSettings, nextInput)
  /\ nextInput \in InputIndex \/ nextInput > 255 - MaxOutside
  /\ nextInput' = IF CurrentRuntimeSettings.CurrentInput = 0 THEN 5
                  ELSE Byte(nextInput + 255)
  /\ UNCHANGED <<CurrentSettings, CurrentRuntimeSettings, args, ret, pc,
                 appMode, eeprom, cmdId, Value, NewValue, timers>>

\* the search has found nextInput active: the change of input, lines 814-827
SwitchInput ==
  /\ pc \in {"KEY_RIGHT", "KEY_LEFT"}
  /\ TRUE \in ReadActive(CurrentSettings, nextInput)
  /\ CurrentRuntimeSettings' \in
       SwitchTo(CurrentSettings, CurrentRuntimeSettings, nextInput)
  /\ pc' = "loop"
  /\ UNCHANGED <<CurrentSettings, args, ret, appMode, eeprom, locals, timers>>

\* loop(), case KEY_BACK in normal mode, lines 752-756
KEY_BACK ==
  /\ AtLoop("APP_NORMAL_MODE")
  /\ appMode' = "APP_MENU_MODE"
  /\ UNCHANGED <<CurrentSettings, CurrentRuntimeSettings, args, ret, pc,
                 eeprom, locals, timers>>

(***************************************************************************)
(* The menu.  Menu1.handleNavigation lets the user leave the menu or       *)
(* invoke any item; the items modelled are the editors of the step count,  *)
(* of the attenuation range and of the volume limits of the first          *)
(* MenuInputs inputs.                                                      *)
(***************************************************************************)

MaxVolCmd ==
  [i \in InputIndex |->
     <<"mnuCmdINPUT1_MAX_VOL", "mnuCmdINPUT2_MAX_VOL", "mnuCmdINPUT3_MAX_VOL",
       "mnuCmdINPUT4_MAX_VOL", "mnuCmdINPUT5_MAX_VOL", "mnuCmdINPUT6_MAX_VOL">>[i + 1]]

MinVolCmd ==
  [i \in InputIndex |->
     <<"mnuCmdINPUT1_MIN_VOL", "mnuCmdINPUT2_MIN_VOL", "mnuCmdINPUT3_MIN_VOL",
       "mnuCmdINPUT4_MIN_VOL", "mnuCmdINPUT5_MIN_VOL", "mnuCmdINPUT6_MIN_VOL">>[i + 1]]

MenuCmds ==
  {"mnuCmdVOL_STEPS", "mnuCmdMIN_ATT", "mnuCmdMAX_ATT"}
    \cup {MaxVolCmd[i] : i \in 0..(MenuInputs - 1)}
    \cup {MinVolCmd[i] : i \in 0..(MenuInputs - 1)}

\* the field the first editor of command c gets by reference, lines 1017-1166
EditedField(c) ==
  CASE c = "mnuCmdVOL_STEPS" -> [field |-> "VolumeSteps", input |-> 0]
    [] c = "mnuCmdMIN_ATT" -> [field |-> "MinAttenuation", input |-> 0]
    [] c = "mnuCmdMAX_ATT" -> [field |-> "MaxAttenuation", input |-> 0]
    [] c = "mnuCmdMAX_START_VOL" -> [field |-> "MaxStartVolume", input |-> 0]
    [] \E i \in InputIndex : c = MaxVolCmd[i] ->
         [field |-> "MaxVol", input |-> CHOOSE i \in InputIndex : c = MaxVolCmd[i]]
    [] \E i \in InputIndex : c = MinVolCmd[i] ->
         [field |-> "MinVol", input |-> CHOOSE i \in InputIndex : c = MinVolCmd[i]]

PerInput(V) == V.field \in {"MaxVol", "MinVol"}

\* the byte V refers to
GetField(S, V) ==
  IF PerInput(V) THEN S.Input[V.input][V.field] ELSE S[V.field]

\* the settings after the assignment of x through V
SetField(S, V, x) ==
  IF PerInput(V) THEN [S EXCEPT !.Input[V.input][V.field] = x]
  ELSE [S EXCEPT ![V.field] = x]

\* the arguments MinValue and MaxValue of the editor of V, lines 1019-1165;
\* the settings do not change while an editor is open
MinValue(S, V) ==
  CASE V.field = "VolumeSteps" -> 1
    [] V.field = "MaxAttenuation" -> Byte(S.MinAttenuation + 1)
    [] OTHER -> 0

\* the largest values with 180 steps allowed
MaxValueSteps180(S, V) ==
  CASE V.field = "VolumeSteps" -> 180
    [] V.field = "MinAttenuation" -> S.MaxAttenuation
    [] V.field = "MaxAttenuation" -> 90
    [] V.field = "MinVol" -> S.Input[V.input].MaxVol
    [] OTHER -> S.VolumeSteps

MaxValue(S, V) ==
  CASE V.field = "VolumeSteps" -> 179
    [] V.field = "MinAttenuation" -> S.MaxAttenuation
    [] V.field = "MaxAttenuation" -> 90
    [] V.field = "MinVol" -> S.Input[V.input].MaxVol
    [] OTHER -> S.VolumeSteps

\* the largest value the user is followed to in the editor of V
EditLimit(V) ==
  IF V.field \in {"MinAttenuation", "MaxAttenuation"} THEN MaxCtlDb
  ELSE MaxCtlSteps

\* the largest value any call of editNumericValue allows for V, lines 1019
\* and 1050
TopValue(V) ==
  IF V.field \in {"MinAttenuation", "MaxAttenuation"} THEN 90 ELSE 179

\* the values the user is followed to in the editor of V: the lowest ones
\* and the ones around the largest value the code allows
EditRange(V) ==
  (0..EditLimit(V)) \cup ((TopValue(V) - EditLimit(V))..(TopValue(V) + EditLimit(V)))

\* loop(), case APP_MENU_MODE with MENU_EXIT, lines 921-930
MenuExit ==
  /\ AtLoop("APP_MENU_MODE")
  /\ appMode' = "APP_NORMAL_MODE"
  /\ UNCHANGED <<CurrentSettings, CurrentRuntimeSettings, args, ret, pc,
                 eeprom, locals, timers>>

\* loop(), case APP_MENU_MODE with MENU_INVOKE_ITEM, lines 931-934
MenuInvokeItem(cmds) ==
  /\ AtLoop("APP_MENU_MODE")
  /\ \E c \in cmds : cmdId' = c
  /\ appMode' = "APP_PROCESS_MENU_CMD"
  /\ UNCHANGED <<CurrentSettings, CurrentRuntimeSettings, args, ret, pc,
                 eeprom, nextInput, Value, NewValue, timers>>

\* loop(), case APP_PROCESS_MENU_CMD: processMenuCommand(cmdId) up to the
\* first read of a key in editNumericValue, lines 937-939, 1015-1165, 1700
processMenuCommand ==
  /\ AtLoop("APP_PROCESS_MENU_CMD")
  /\ Value' = EditedField(cmdId)
  /\ NewValue' = GetField(CurrentSettings, EditedField(cmdId))
  /\ pc' = "editNumericValue"
  /\ UNCHANGED <<CurrentSettings, CurrentRuntimeSettings, args, ret,
                 appMode, eeprom, nextInput, cmdId, timers>>

\* editNumericValue, case KEY_RIGHT, lines 1721-1727
EditKeyRight ==
  /\ pc = "editNumericValue"
  /\ NewValue < MaxValue(CurrentSettings, Value)
  /\ Byte(NewValue + 1) \in EditRange(Value)
  /\ NewValue' = Byte(NewValue + 1)
  /\ UNCHANGED <<CurrentSettings, CurrentRuntimeSettings, args, ret, pc,
                 appMode, eeprom, nextInput, cmdId, Value, timers>>

\* editNumericValue, case KEY_LEFT, lines 1728-1734
EditKeyLeft ==
  /\ pc = "editNumericValue"
  /\ NewValue > MinValue(CurrentSettings, Value)
  /\ Byte(NewValue + 255) \in EditRange(Value)
  /\ NewValue' = Byte(NewValue + 255)
  /\ UNCHANGED <<CurrentSettings, CurrentRuntimeSettings, args, ret, pc,
                 appMode, eeprom, nextInput, cmdId, Value, timers>>

\* the validation without the limit on MaxStartVolume
LimitToStepsInputsOnly(S) ==
  [S EXCEPT
     !.Input = [i \in InputIndex |->
                  [S.Input[i] EXCEPT
                     !.MaxVol = IF @ > S.VolumeSteps THEN S.VolumeSteps ELSE @,
                     !.MinVol = IF @ > S.VolumeSteps THEN S.VolumeSteps ELSE @]]]

\* the settings after the validation of the limits against a new step
\* count, lines 1022-1031
LimitToSteps(S) ==
  [S EXCEPT
     !.Input = [i \in InputIndex |->
                  [S.Input[i] EXCEPT
                     !.MaxVol = IF @ > S.VolumeSteps THEN S.VolumeSteps ELSE @,
                     !.MinVol = IF @ > S.VolumeSteps THEN S.VolumeSteps ELSE @]],
     !.MaxStartVolume = IF @ > S.VolumeSteps THEN S.VolumeSteps ELSE @]

\* editNumericValue, case KEY_SELECT, lines 1735-1740, and the rest of
\* processMenuCommand and of loop() after the editor has returned true,
\* lines 1020-1043 and 941-945
EditKeySelect ==
  /\ pc = "editNumericValue"
  /\ LET S1 == SetField(CurrentSettings, Value, NewValue)
         R == CurrentRuntimeSettings
     IN  IF Value.field = "VolumeSteps"
           THEN /\ CurrentSettings' = LimitToSteps(S1)
                /\ IF R.CurrentVolume > S1.VolumeSteps
                     THEN /\ \E conv \in LongOverflow :
                               CurrentRuntimeSettings' =
                                 IF R.Muted
                                   THEN [R EXCEPT !.CurrentVolume = S1.VolumeSteps]
                                   ELSE setVolumeIn(LimitToSteps(S1),
                                          [R EXCEPT !.CurrentVolume = S1.VolumeSteps],
                                          conv)
                          /\ eeprom' = [settings |-> CurrentSettings',
                                        runtime |-> CurrentRuntimeSettings']
                     ELSE /\ UNCHANGED CurrentRuntimeSettings
                          /\ eeprom' = [eeprom EXCEPT !.settings = S1]
           ELSE /\ CurrentSettings' = S1
                /\ eeprom' = [eeprom EXCEPT !.settings = S1]
                /\ UNCHANGED CurrentRuntimeSettings
  /\ appMode' = "APP_MENU_MODE"
  /\ pc' = "loop"
  /\ cmdId' = "none"
  /\ Value' = NoValue
  /\ NewValue' = 0
  /\ UNCHANGED <<args, ret, nextInput, timers>>

\* editNumericValue, case KEY_BACK, lines 1741-1745, and the rest of
\* processMenuCommand: after the editor of mnuCmdVOL_STEPS has returned
\* false, control falls from line 1043 into case mnuCmdMIN_ATT, line 1046
EditKeyBack ==
  /\ pc = "editNumericValue"
  /\ IF Value.field = "VolumeSteps"
       THEN /\ Value' = [field |-> "MinAttenuation", input |-> 0]
            /\ NewValue' = CurrentSettings.MinAttenuation
            /\ UNCHANGED <<pc, appMode, cmdId>>
       ELSE /\ cmdId' = "none"
            /\ Value' = NoValue
            /\ NewValue' = 0
            /\ appMode' = "APP_MENU_MODE"
            /\ pc' = "loop"
  /\ UNCHANGED <<CurrentSettings, CurrentRuntimeSettings, args, ret,
                 eeprom, nextInput, timers>>

\* the keys of normal mode that change the volume or the input
NormalKeys ==
  \/ KEY_UP
  \/ KEY_DOWN
  \/ KEY_MUTE
  \/ KEY_1to6

\* the menu and its editors
MenuKeys(cmds) ==
  \/ KEY_BACK
  \/ MenuExit
  \/ MenuInvokeItem(cmds)
  \/ processMenuCommand
  \/ EditKeyRight
  \/ EditKeyLeft
  \/ EditKeySelect
  \/ EditKeyBack

\* the search for the next input with KEY_LEFT and KEY_RIGHT
InputKeys ==
  \/ KEY_RIGHT
  \/ WhileRight
  \/ KEY_LEFT
  \/ WhileLeft
  \/ SwitchInput

\* the images of a controller with the inputs 0 and 1 in use, both used
\* at some volume
VolumeImages ==
  Images(1..MaxCtlSteps, MaxCtlDb, {{0, 1}}, 0..MaxCtlSteps, 0..MaxCtlSteps, {VERSION})

\* the images of a controller with the inputs 0 and 1 in use, one used
KeyImages ==
  Images(1..MaxCtlSteps, MaxCtlDb, {{0, 1}}, 0..MaxCtlSteps, {0}, {VERSION})

\* the volume and input keys of normal mode
InitKeys == InitOn(KeyImages)

NextKeys == setup \/ NormalKeys

SpecKeys == InitKeys /\ [][NextKeys]_vars

\* the selection of an input and the edit of the step count
InitSteps == InitOn(VolumeImages)

NextSteps == setup \/ KEY_1to6 \/ MenuKeys({"mnuCmdVOL_STEPS"})

SpecSteps == InitSteps /\ [][NextSteps]_vars

\* the menu alone, with every modelled item
InitMenu == InitOn(KeyImages)

NextMenu == setup \/ MenuKeys(MenuCmds)

SpecMenu == InitMenu /\ [][NextMenu]_vars

\* the images with every activation pattern
InputImages == Images({DefaultVolumeSteps}, 1, SUBSET InputIndex, {0}, {0}, {VERSION})

InitInput == InitOn(InputImages)

NextInput == setup \/ InputKeys

SpecInput == InitInput /\ [][NextInput]_vars

\* the editors of the limits of the volume
LimitCmds ==
  {"mnuCmdVOL_STEPS", "mnuCmdMAX_START_VOL"}
    \cup {MaxVolCmd[i] : i \in 0..(MenuInputs - 1)}
    \cup {MinVolCmd[i] : i \in 0..(MenuInputs - 1)}

\* the images of a controller that has not selected another input or volume
LimitImages == Images(1..MaxCtlSteps, 1, {{0, 1}}, {0}, {0}, {VERSION})

\* the menu with the editors of the step count and of the volume limits
InitLimits == InitOn({img \in LimitImages : img.runtime.CurrentInput = 0})

NextLimits == setup \/ MenuKeys(LimitCmds)

SpecLimits == InitLimits /\ [][NextLimits]_vars

\* the images with the step count and the attenuation range at the lowest
\* and at the largest values
RangeImages ==
  { [settings |-> StoredSettings(s, lo, hi, {0, 1}, VERSION),
     runtime |-> StoredRuntimeSettings(0, 0, 0, VERSION)] :
      s \in (1..MaxCtlSteps) \cup ((179 - MaxCtlSteps)..179),
      lo \in (0..MaxCtlDb) \cup ((90 - MaxCtlDb)..90),
      hi \in (1..MaxCtlDb) \cup ((90 - MaxCtlDb)..90) }

\* the menu with the editors of the step count and of the attenuation range
InitRange == InitOn(RangeImages)

NextRange == setup \/ MenuKeys({"mnuCmdVOL_STEPS", "mnuCmdMIN_ATT", "mnuCmdMAX_ATT"})

SpecRange == InitRange /\ [][NextRange]_vars

\* the images of any version, 90 standing for a version other than VERSION
StartupImages ==
  Images(1..MaxCtlSteps, MaxCtlDb, {{0, 1}, InputIndex}, 0..MaxCtlSteps, {0},
         {VERSION, 90})

InitStartup == InitOn(StartupImages)

NextStartup == setup

SpecStartup == InitStartup /\ [][NextStartup]_vars

(***************************************************************************)
(* Power loss and standby.                                                 *)
(***************************************************************************)

\* the readings of the ADC around the thresholds of loop(): 5006, 4712,
\* 4693, 4616, 4597, 3003 and 2995 mV
AdcReadings == {225, 239, 240, 244, 245, 375, 376}

\* vcc = 1126400L / vcc, lines 732-734
VccOf(adc) == 1126400 \div adc

\* writeRuntimeSettingsToEEPROM, lines 2028-2033
writeRuntimeSettingsToEEPROM ==
  eeprom' = [eeprom EXCEPT !.runtime = CurrentRuntimeSettings]

\* reboot(), lines 2060-2069, and the restart of getUserInput, line 367:
\* jmp 0 runs the C runtime again, which initialises the globals
reboot ==
  /\ pc' = "reset"
  /\ CurrentSettings' = ZeroSettings
  /\ CurrentRuntimeSettings' = ZeroRuntimeSettings
  /\ appMode' = "APP_NORMAL_MODE"
  /\ nextInput' = 0
  /\ cmdId' = "none"
  /\ Value' = NoValue
  /\ NewValue' = 0
  /\ millis' = ULong(0)
  /\ last_KEY_ONOFF' = ULong(0)
  /\ UNCHANGED <<args, ret, eeprom>>

\* loop(), detection of the power loss, lines 719-740
DetectPowerOff ==
  /\ pc = "loop"
  /\ appMode # "APP_POWERLOSS_STATE"
  /\ \E adc \in AdcReadings : vcc' = VccOf(adc)
  /\ IF vcc' > 3000 /\ vcc' < 4600
       THEN /\ writeRuntimeSettingsToEEPROM
            /\ appMode' = "APP_POWERLOSS_STATE"
            /\ pc' = "APP_POWERLOSS_STATE"
       ELSE UNCHANGED <<eeprom, appMode, pc>>
  /\ UNCHANGED <<CurrentSettings, CurrentRuntimeSettings, args, ret, locals,
                 millis, last_KEY_ONOFF, sinceOnOff>>

\* the wait that reboots from 4600 mV
PowerLossWaitFrom4600 ==
  /\ pc = "APP_POWERLOSS_STATE"
  /\ \E adc \in AdcReadings : vcc' = VccOf(adc)
  /\ IF vcc' < 4600
       THEN UNCHANGED <<CurrentSettings, CurrentRuntimeSettings, args, ret, pc,
                        appMode, eeprom, locals, millis, last_KEY_ONOFF>>
       ELSE reboot
  /\ UNCHANGED sinceOnOff

\* loop(), case APP_POWERLOSS_STATE: one pass of the do-while, and the
\* reboot after it, lines 951-975
PowerLossWait ==
  /\ pc = "APP_POWERLOSS_STATE"
  /\ \E adc \in AdcReadings : vcc' = VccOf(adc)
  /\ IF vcc' < 4700
       THEN UNCHANGED <<CurrentSettings, CurrentRuntimeSettings, args, ret, pc,
                        appMode, eeprom, locals, millis, last_KEY_ONOFF>>
       ELSE reboot
  /\ UNCHANGED sinceOnOff

\* the milliseconds a step of the clock takes, and the distance from the
\* start and from the end of the range of millis() the clock is followed in
TickMs == 2500

MaxMillis == 7500

\* the times the clock is followed at: the first MaxMillis ms after the start
\* and the last MaxMillis ms before millis() wraps
InWindow(t) ==
  \/ t.hi = 0 /\ t.lo <= MaxMillis
  \/ t.hi = HalfWord - 1 /\ t.lo >= HalfWord - MaxMillis

\* TickMs milliseconds pass
Tick ==
  /\ pc \in {"loop", "toStandbyMode"}
  /\ millis' = ULongAdd(millis, TickMs)
  /\ InWindow(millis')
  /\ sinceOnOff' = IF sinceOnOff + TickMs < OnOffGuardMs
                     THEN sinceOnOff + TickMs ELSE OnOffGuardMs
  /\ UNCHANGED <<CurrentSettings, CurrentRuntimeSettings, args, ret, pc,
                 appMode, eeprom, locals, vcc, last_KEY_ONOFF>>

\* the controller stays powered until MaxMillis ms before millis() wraps
\* (49.7 days after the start)
LongWait ==
  /\ pc \in {"loop", "toStandbyMode"}
  /\ millis.hi = 0
  /\ millis' = [hi |-> HalfWord - 1, lo |-> HalfWord - MaxMillis]
  /\ sinceOnOff' = OnOffGuardMs
  /\ UNCHANGED <<CurrentSettings, CurrentRuntimeSettings, args, ret, pc,
                 appMode, eeprom, locals, vcc, last_KEY_ONOFF>>

\* getUserInput with KEY_ONOFF received, lines 354-370, and toStandbyMode up
\* to its wait, lines 979-999
KEY_ONOFF ==
  /\ pc \in {"loop", "editNumericValue", "toStandbyMode"}
  /\ IF ULongLess(millis, ULongAdd(last_KEY_ONOFF, OnOffGuardMs))
       THEN UNCHANGED vars
       ELSE /\ sinceOnOff' = 0
            /\ UNCHANGED vcc
            /\ IF appMode # "APP_STANDBY_MODE"
                 THEN /\ last_KEY_ONOFF' = millis
                      /\ appMode' = "APP_STANDBY_MODE"
                      /\ writeRuntimeSettingsToEEPROM
                      /\ pc' = "toStandbyMode"
                      /\ UNCHANGED <<CurrentSettings, CurrentRuntimeSettings,
                                     args, ret, locals, millis>>
                 ELSE reboot

\* toStandbyMode, one pass of its wait with another key or none, line 1000
toStandbyModeWait ==
  /\ pc = "toStandbyMode"
  /\ UNCHANGED vars

\* the images of a controller with the inputs 0 and 1 in use at volume 0
PowerImages == Images({MaxCtlSteps}, 1, {{0, 1}}, {0}, {0}, {VERSION})

\* normal mode and the menu with the supply voltage measured
InitPower == InitOn(PowerImages)

NextPower ==
  setup \/ NormalKeys \/ KEY_BACK \/ MenuExit \/ DetectPowerOff \/ PowerLossWait

SpecPower == InitPower /\ [][NextPower]_vars

\* normal mode and the menu with the clock and KEY_ONOFF
InitStandby == InitOn(PowerImages)

NextStandby ==
  \/ setup
  \/ KEY_UP
  \/ KEY_BACK
  \/ MenuExit
  \/ Tick
  \/ LongWait
  \/ KEY_ONOFF
  \/ toStandbyModeWait

SpecStandby == InitStandby /\ [][NextStandby]_vars

(***************************************************************************)
(* Properties.                                                             *)
(***************************************************************************)

\* the last step was a call of getAttenuation on args
Called == pc = "getAttenuation"

\* the arguments lie inside the interface bounds of the mapping
InterfaceBounds ==
  /\ args.steps \in 1..179
  /\ args.selStep \in 0..255
  /\ 0 <= args.min_dB /\ args.min_dB < args.max_dB /\ args.max_dB <= 90

rangeDb == args.max_dB - args.min_dB

coarseStepSize(conv) == sizeOfLargeSteps(args.steps, args.min_dB, args.max_dB, conv)

fineStepCount(conv) == numberOfSmallSteps(args.steps, args.min_dB, args.max_dB, conv)

\* the two conditions of the feasibility policy that depend on the profile only
FeasibleProfile ==
  \E conv \in LongOverflow :
    /\ FLeq(fineStepCount(conv), FInt(args.steps))
    /\ FLeq(coarseStepSize(conv), FInt(4))

\* at least one feasibility condition fails
Infeasible(conv) ==
  \/ FLess(FInt(args.steps), fineStepCount(conv))
  \/ args.selStep > args.steps
  \/ FLess(FInt(4), coarseStepSize(conv))

\* the code returned for step k of the profile in args
CodeAt(k, conv) == getAttenuation(args.steps, k, args.min_dB, args.max_dB, conv)

\* a is a whole number
IsWhole(a) ==
  \/ a.m = 0
  \/ a.e >= 0
  \/ (-a.e < MantBits /\ a.m % (2^(-a.e)) = 0)

\* the integer a whole float stands for
IntValue(a) == a.sg * FTrunc(a)

\* C1: for every feasible profile inside the interface bounds the call with
\* selStep = 0 returns exactly 2*max_dB (maximum attenuation at step 0).
C1_MaxAttenuationAtStepZero ==
  (Called /\ InterfaceBounds /\ FeasibleProfile /\ args.selStep = 0)
    => ret = 2 * args.max_dB

\* a call at step 0 of a feasible profile with large steps of 3 dB
C1_Witness ==
  /\ Called /\ InterfaceBounds /\ FeasibleProfile /\ args.selStep = 0
  /\ IntValue(coarseStepSize("LONG_MIN")) = 3
  /\ ret = 2 * args.max_dB

\* C2: for every feasible profile the call with selStep = steps returns
\* exactly 2*min_dB, also when numberOfSmallSteps is not a whole number.
C2_MinAttenuationAtLastStep ==
  (Called /\ InterfaceBounds /\ FeasibleProfile /\ args.selStep = args.steps)
    => ret = 2 * args.min_dB

\* C3: for a feasible profile the returned code is non-increasing in the
\* selected step: every step b with selStep <= b <= steps returns a code
\* that is at most the code returned for selStep.
C3_Monotonic ==
  (Called /\ InterfaceBounds /\ FeasibleProfile /\ args.selStep <= args.steps)
    => \A b \in args.selStep..args.steps :
         \A conv \in LongOverflow : CodeAt(b, conv) <= ret

\* a call below the last step of a feasible profile whose last step returns
\* a strictly smaller code
C3_Witness ==
  /\ Called /\ InterfaceBounds /\ FeasibleProfile
  /\ args.selStep < args.steps
  /\ CodeAt(args.steps, "LONG_MIN") < ret

\* C4: inside the interface bounds the call returns the sentinel 223 if and
\* only if at least one feasibility condition fails (numberOfSmallSteps >
\* steps, selStep > steps or sizeOfLargeSteps > 4).
C4_MuteIffInfeasible ==
  (Called /\ InterfaceBounds)
    => (ret = MUTE_CODE <=> \A conv \in LongOverflow : Infeasible(conv))

\* a call inside the step range that returns the sentinel because the large
\* step would exceed 4 dB
C4_Witness ==
  /\ Called /\ InterfaceBounds /\ args.selStep <= args.steps
  /\ FLess(FInt(4), coarseStepSize("LONG_MAX"))
  /\ FLeq(fineStepCount("LONG_MAX"), FInt(args.steps))
  /\ ret = MUTE_CODE

C6_OneDbSteps ==
  (Called /\ InterfaceBounds /\ rangeDb = args.steps /\ args.selStep <= args.steps)
    => ret = 2 * (args.max_dB - args.selStep)

\* the call on the last step of the default profile, returning 0
C6_Witness ==
  /\ Called
  /\ args.steps = DefaultVolumeSteps /\ args.min_dB = DefaultMinAttenuation
  /\ args.max_dB = DefaultMaxAttenuation /\ args.selStep = DefaultVolumeSteps
  /\ ret = 0

\* C7: every feasible call inside the interface bounds returns a code c
\* with 2*min_dB <= c <= 2*max_dB <= 180: a whole number of half-dB units
\* that fits in 8 bits and differs from the sentinel.
C7_CodeWithinProfile ==
  (Called /\ InterfaceBounds /\ FeasibleProfile /\ args.selStep <= args.steps)
    => /\ ret \in 0..255
       /\ 2 * args.min_dB <= ret
       /\ ret <= 2 * args.max_dB
       /\ 2 * args.max_dB <= 180
       /\ ret # MUTE_CODE

CanSpan(c) == c * args.steps <= 2 * rangeDb /\ rangeDb <= c * args.steps

\* C9 as stated: for every feasible call sizeOfLargeSteps is the smallest
\* integer c >= 1 with c*steps/2 <= rangeDb <= c*steps.
C9_SmallestSpanningStep ==
  \A conv \in LongOverflow :
    (Called /\ InterfaceBounds
       /\ Feasible(args.steps, args.selStep, args.min_dB, args.max_dB, conv))
      => LET c == IntValue(coarseStepSize(conv))
         IN /\ IsWhole(coarseStepSize(conv))
            /\ c >= 1
            /\ CanSpan(c)
            /\ \A d \in 1..(c - 1) : ~CanSpan(d)

\* C9 amended: for every feasible call sizeOfLargeSteps is an integer
\* c >= 1 with c*steps/2 <= rangeDb <= c*steps (not always the smallest).
C9_SpanningStep ==
  \A conv \in LongOverflow :
    (Called /\ InterfaceBounds
       /\ Feasible(args.steps, args.selStep, args.min_dB, args.max_dB, conv))
      => LET c == IntValue(coarseStepSize(conv))
         IN /\ IsWhole(coarseStepSize(conv))
            /\ c >= 1
            /\ CanSpan(c)

\* a feasible call whose large step spans the range although a smaller
\* step size would span it too
C9_Witness ==
  /\ Called /\ InterfaceBounds
  /\ Feasible(args.steps, args.selStep, args.min_dB, args.max_dB, "LONG_MIN")
  /\ CanSpan(IntValue(coarseStepSize("LONG_MIN")))
  /\ \E d \in 1..(IntValue(coarseStepSize("LONG_MIN")) - 1) : CanSpan(d)

\* 0 <= numberOfSmallSteps <= steps and sizeOfLargeSteps is an integer in 1..4
FineCountInRange(conv) ==
  /\ FLeq(FZero, fineStepCount(conv))
  /\ FLeq(fineStepCount(conv), FInt(args.steps))
  /\ IsWhole(coarseStepSize(conv))
  /\ IntValue(coarseStepSize(conv)) \in 1..4

\* C10 as stated: for every feasible call numberOfSmallSteps is a whole
\* number with 0 <= numberOfSmallSteps <= steps and sizeOfLargeSteps is an
\* integer with 1 <= sizeOfLargeSteps <= 4.
C10_WholeFineCount ==
  \A conv \in LongOverflow :
    (Called /\ InterfaceBounds
       /\ Feasible(args.steps, args.selStep, args.min_dB, args.max_dB, conv))
      => (FineCountInRange(conv) /\ IsWhole(fineStepCount(conv)))

\* C10 amended: for every feasible call 0 <= numberOfSmallSteps <= steps
\* (it need not be whole) and sizeOfLargeSteps is an integer in 1..4.
C10_FineCountInRange ==
  \A conv \in LongOverflow :
    (Called /\ InterfaceBounds
       /\ Feasible(args.steps, args.selStep, args.min_dB, args.max_dB, conv))
      => FineCountInRange(conv)

\* a feasible call whose numberOfSmallSteps lies strictly between 0 and
\* steps and is not whole
C10_Witness ==
  /\ Called /\ InterfaceBounds
  /\ Feasible(args.steps, args.selStep, args.min_dB, args.max_dB, "LONG_MIN")
  /\ FineCountInRange("LONG_MIN")
  /\ ~IsWhole(fineStepCount("LONG_MIN"))

\* C11: for every feasible profile each single step s -> s+1 (0 <= s < steps)
\* lowers the attenuation by exactly sizeOfLargeSteps/2 dB (sizeOfLargeSteps
\* half-dB units) when s < numberOfSmallSteps and by exactly sizeOfLargeSteps
\* dB (2*sizeOfLargeSteps half-dB units) otherwise.
C11_StepSizeExact ==
  \A conv \in LongOverflow :
    (Called /\ InterfaceBounds /\ args.selStep < args.steps
       /\ Feasible(args.steps, args.selStep, args.min_dB, args.max_dB, conv))
      => ret - CodeAt(args.selStep + 1, conv) =
           IF FLess(FInt(args.selStep), fineStepCount(conv))
             THEN IntValue(coarseStepSize(conv))
             ELSE 2 * IntValue(coarseStepSize(conv))

\* C12: for every feasible profile with 0 < numberOfSmallSteps < steps the
\* half-size increments are the ones nearest selStep = steps: the attenuation
\* change of a step is never larger than the change of the step before it.
C12_FineStepsAtTop ==
  \A conv \in LongOverflow :
    (Called /\ InterfaceBounds /\ args.selStep + 2 <= args.steps
       /\ Feasible(args.steps, args.selStep, args.min_dB, args.max_dB, conv)
       /\ FLess(FZero, fineStepCount(conv))
       /\ FLess(fineStepCount(conv), FInt(args.steps)))
      => CodeAt(args.selStep + 1, conv) - CodeAt(args.selStep + 2, conv)
           <= ret - CodeAt(args.selStep + 1, conv)

\* C13: in every state reached by volume keys, input switching, mute and
\* menu edits of the step count and of the limits, the selected step is in
\* range: 0 <= CurrentVolume <= VolumeSteps.
C13_SelectedStepInRange ==
  /\ 0 <= CurrentRuntimeSettings.CurrentVolume
  /\ CurrentRuntimeSettings.CurrentVolume <= CurrentSettings.VolumeSteps

\* C14: once the settings are loaded, menu edits of the minimum and of the
\* maximum attenuation keep MaxAttenuation strictly above MinAttenuation.
C14_MaxAboveMin ==
  pc \in {"loop", "editNumericValue"} =>
    CurrentSettings.MaxAttenuation > CurrentSettings.MinAttenuation

\* C15: whenever the controller waits for the next key in normal mode, the
\* stored attenuation is getAttenuation of the current profile and step.
C15_AttenuationCurrent ==
  AtLoop("APP_NORMAL_MODE") =>
    \E conv \in LongOverflow :
      CurrentRuntimeSettings.CurrentAttenuation =
        getAttenuation(CurrentSettings.VolumeSteps,
                       CurrentRuntimeSettings.CurrentVolume,
                       CurrentSettings.MinAttenuation,
                       CurrentSettings.MaxAttenuation, conv)

\* C18: KEY_BACK in the volume steps editor ends the menu command: control
\* returns to the menu, no other editor opens, and the settings and the
\* runtime settings are unchanged.
C18_CancelStepsEditor ==
  [][(EditKeyBack /\ cmdId = "mnuCmdVOL_STEPS" /\ Value.field = "VolumeSteps")
       => /\ pc' = "loop"
          /\ Value' = NoValue
          /\ UNCHANGED <<CurrentSettings, CurrentRuntimeSettings>>]_vars

\* C19: while KEY_LEFT searches for the previous active input, every index
\* it reads from CurrentSettings.Input is within 0..5.
C19_LeftSearchInBounds ==
  pc = "KEY_LEFT" => nextInput \in InputIndex

\* both stored Version fields equal VERSION
StoredVersionsValid ==
  /\ eeprom.settings.Version = VERSION
  /\ eeprom.runtime.Version = VERSION

\* the EEPROM after writeDefaultSettingsToEEPROM
DefaultImage == [settings |-> DefaultSettings, runtime |-> DefaultRuntimeSettings]

\* C16: a startup that finds a stored Version other than VERSION writes the
\* default settings and runtime settings to the EEPROM and reboots; a
\* startup on the defaults reaches normal mode with the default profile; a
\* startup that finds both versions valid leaves the EEPROM alone and keeps
\* the stored settings.
C16_StartupValidation ==
  [][setup =>
       /\ ~StoredVersionsValid =>
            /\ eeprom' = DefaultImage
            /\ pc' = "reset"
       /\ eeprom = DefaultImage =>
            /\ pc' = "loop"
            /\ appMode' = "APP_NORMAL_MODE"
            /\ CurrentSettings' = DefaultSettings
            /\ CurrentRuntimeSettings'.CurrentVolume = 0
            /\ CurrentRuntimeSettings'.CurrentAttenuation =
                 2 * DefaultMaxAttenuation
       /\ StoredVersionsValid =>
            /\ UNCHANGED eeprom
            /\ pc' = "loop"
            /\ CurrentSettings' = eeprom.settings]_vars

\* normal mode with the default profile, after the reboot that wrote it
C16_Witness ==
  /\ pc = "loop"
  /\ appMode = "APP_NORMAL_MODE"
  /\ eeprom = DefaultImage
  /\ CurrentSettings = DefaultSettings
  /\ CurrentRuntimeSettings.CurrentAttenuation = 2 * DefaultMaxAttenuation

\* the volume of the current input can go up, resp. down
CanGoUp ==
  /\ ~CurrentRuntimeSettings.Muted
  /\ CurrentRuntimeSettings.CurrentVolume <
       CurrentSettings.Input[CurrentRuntimeSettings.CurrentInput].MaxVol

CanGoDown ==
  /\ ~CurrentRuntimeSettings.Muted
  /\ CurrentRuntimeSettings.CurrentVolume >
       CurrentSettings.Input[CurrentRuntimeSettings.CurrentInput].MinVol

\* the step goes to v: it is stored for the current input, the attenuation
\* is getAttenuation of it, and nothing else changes
SteppedTo(v) ==
  LET R == CurrentRuntimeSettings
  IN  /\ R'.CurrentVolume = v
      /\ R'.InputLastVol = [R.InputLastVol EXCEPT ![R.CurrentInput] = v]
      /\ \E conv \in LongOverflow :
           R'.CurrentAttenuation =
             getAttenuation(CurrentSettings.VolumeSteps, v,
                            CurrentSettings.MinAttenuation,
                            CurrentSettings.MaxAttenuation, conv)
      /\ R'.CurrentInput = R.CurrentInput
      /\ R'.Muted = R.Muted
      /\ R'.PrevSelectedInput = R.PrevSelectedInput
      /\ UNCHANGED CurrentSettings

\* C17: KEY_UP changes state only when not muted and below MaxVol of the
\* current input, and then raises CurrentVolume by exactly 1, stores it in
\* InputLastVol[CurrentInput] and sets CurrentAttenuation to getAttenuation
\* of the new step; KEY_DOWN does the same downwards above MinVol; while
\* muted neither key changes the volume, InputLastVol or the attenuation.
C17_VolumeKeys ==
  [][/\ KEY_UP =>
          IF CanGoUp
            THEN SteppedTo(CurrentRuntimeSettings.CurrentVolume + 1)
            ELSE UNCHANGED <<CurrentSettings, CurrentRuntimeSettings>>
     /\ KEY_DOWN =>
          IF CanGoDown
            THEN SteppedTo(CurrentRuntimeSettings.CurrentVolume - 1)
            ELSE UNCHANGED <<CurrentSettings, CurrentRuntimeSettings>>
     /\ ((KEY_UP \/ KEY_DOWN) /\ CurrentRuntimeSettings.Muted) =>
          /\ CurrentRuntimeSettings'.CurrentVolume =
               CurrentRuntimeSettings.CurrentVolume
          /\ CurrentRuntimeSettings'.InputLastVol =
               CurrentRuntimeSettings.InputLastVol
          /\ CurrentRuntimeSettings'.CurrentAttenuation =
               CurrentRuntimeSettings.CurrentAttenuation]_vars

\* KEY_UP and KEY_DOWN have acted: muted, on an input whose volume was
\* raised and is below MaxVol, while another input holds a volume too
C17_Witness ==
  /\ AtLoop("APP_NORMAL_MODE")
  /\ CurrentRuntimeSettings.Muted
  /\ CurrentRuntimeSettings.CurrentVolume > 0
  /\ CurrentRuntimeSettings.CurrentVolume <
       CurrentSettings.Input[CurrentRuntimeSettings.CurrentInput].MaxVol
  /\ CurrentRuntimeSettings.InputLastVol[CurrentRuntimeSettings.CurrentInput] =
       CurrentRuntimeSettings.CurrentVolume
  /\ \E i \in InputIndex :
       /\ i # CurrentRuntimeSettings.CurrentInput
       /\ CurrentRuntimeSettings.InputLastVol[i] > 0

\* the number of inputs from input a up to input b, going round from 5 to 0
StepsUp(a, b) == (b + 6 - a) % 6

\* the current input is one of the six and is active
CurrentInputActive ==
  /\ CurrentRuntimeSettings.CurrentInput \in InputIndex
  /\ CurrentSettings.Input[CurrentRuntimeSettings.CurrentInput].Active

\* nextInput is the nearest active input above the current one, going
\* round from 5 to 0; the current input itself when no other is active
NearestActiveAbove ==
  LET cur == CurrentRuntimeSettings.CurrentInput
      d == IF nextInput = cur THEN 6 ELSE StepsUp(cur, nextInput)
  IN  /\ nextInput \in InputIndex
      /\ CurrentSettings.Input[nextInput].Active
      /\ \A k \in 1..(d - 1) : ~CurrentSettings.Input[(cur + k) % 6].Active

\* C20: with the current input in 0..5 and active, the search of KEY_RIGHT
\* keeps nextInput in 0..5, every pass of its loop brings nextInput nearer
\* to the current input (so the search ends), it ends on the nearest active
\* input above the current one, and CurrentInput and PrevSelectedInput
\* change only when that input differs from the current one.
C20_RightSearch ==
  [][(pc = "KEY_RIGHT" /\ CurrentInputActive) =>
       /\ nextInput \in InputIndex
       /\ WhileRight =>
            /\ nextInput' \in InputIndex
            /\ nextInput # CurrentRuntimeSettings.CurrentInput
            /\ StepsUp(nextInput', CurrentRuntimeSettings.CurrentInput) <
                 StepsUp(nextInput, CurrentRuntimeSettings.CurrentInput)
       /\ SwitchInput =>
            /\ NearestActiveAbove
            /\ CurrentRuntimeSettings'.CurrentInput = nextInput
            /\ IF nextInput # CurrentRuntimeSettings.CurrentInput
                 THEN CurrentRuntimeSettings'.PrevSelectedInput =
                        CurrentRuntimeSettings.CurrentInput
                 ELSE UNCHANGED CurrentRuntimeSettings]_vars

\* the search went round from input 5 to input 0 and stands on an active
\* input below the one it started from
C20_Witness ==
  /\ pc = "KEY_RIGHT"
  /\ CurrentInputActive
  /\ CurrentRuntimeSettings.CurrentInput \in 1..4
  /\ nextInput < CurrentRuntimeSettings.CurrentInput
  /\ nextInput > 0
  /\ CurrentSettings.Input[nextInput].Active

\* C21: after any sequence of menu edits the limits in memory do not exceed
\* the step count: MaxVol and MinVol of every input and MaxStartVolume are
\* at most VolumeSteps.
C21_LimitsWithinSteps ==
  /\ \A i \in InputIndex :
       /\ CurrentSettings.Input[i].MaxVol <= CurrentSettings.VolumeSteps
       /\ CurrentSettings.Input[i].MinVol <= CurrentSettings.VolumeSteps
  /\ CurrentSettings.MaxStartVolume <= CurrentSettings.VolumeSteps

\* the step count was lowered below the limits of input 0, which were
\* lowered with it; the EEPROM still holds the former MaxVol
C21_Witness ==
  /\ pc = "loop"
  /\ CurrentSettings.VolumeSteps < eeprom.settings.Input[0].MaxVol
  /\ CurrentSettings.Input[0].MaxVol = CurrentSettings.VolumeSteps
  /\ CurrentSettings.Input[0].MinVol = CurrentSettings.VolumeSteps
  /\ CurrentSettings.MaxStartVolume = CurrentSettings.VolumeSteps

\* C22: with RecallSetLevel on, the volume on the return to an input is the
\* volume in effect when the input was left.  Stated per change of input:
\* the volume stored for the input that is left is the volume in effect, the
\* stored volumes are kept, and the volume on the new input is its stored
\* volume.
C22_RecallOnReturn ==
  [][(pc = "loop" /\ pc' = "loop" /\ CurrentSettings.RecallSetLevel
        /\ CurrentRuntimeSettings'.CurrentInput #
             CurrentRuntimeSettings.CurrentInput)
       => /\ CurrentRuntimeSettings.InputLastVol[CurrentRuntimeSettings.CurrentInput] =
               CurrentRuntimeSettings.CurrentVolume
          /\ CurrentRuntimeSettings'.InputLastVol =
               CurrentRuntimeSettings.InputLastVol
          /\ CurrentRuntimeSettings'.CurrentVolume =
               CurrentRuntimeSettings.InputLastVol[CurrentRuntimeSettings'.CurrentInput]]_vars

\* C25: once the settings are loaded, menu edits keep the configuration
\* within 1 <= VolumeSteps <= 179 and
\* 0 <= MinAttenuation <= MaxAttenuation <= 90.
C25_ConfigurationInBoundary ==
  pc \in {"loop", "editNumericValue"} =>
    /\ 1 <= CurrentSettings.VolumeSteps
    /\ CurrentSettings.VolumeSteps <= 179
    /\ 0 <= CurrentSettings.MinAttenuation
    /\ CurrentSettings.MinAttenuation <= CurrentSettings.MaxAttenuation
    /\ CurrentSettings.MaxAttenuation <= 90

\* the step count and both attenuations were edited up to the largest
\* values the editors allow
C25_Witness ==
  /\ pc = "loop"
  /\ CurrentSettings.VolumeSteps = 179
  /\ eeprom.settings.VolumeSteps = 179
  /\ CurrentSettings.MinAttenuation = 90
  /\ CurrentSettings.MaxAttenuation = 90

\* C23: a measurement strictly between 3000 and 4600 mV outside the power
\* loss state writes the runtime settings to the EEPROM and enters the power
\* loss state; in that state the EEPROM is not written and the state is left
\* only by a reboot on a measurement of 4700 mV or more; a change of the
\* volume or of the input in normal mode does not write to the EEPROM.
C23_PowerLoss ==
  [][/\ (pc = "loop" /\ appMode # "APP_POWERLOSS_STATE"
           /\ vcc' > 3000 /\ vcc' < 4600)
          => /\ eeprom' = [eeprom EXCEPT !.runtime = CurrentRuntimeSettings]
             /\ appMode' = "APP_POWERLOSS_STATE"
     /\ (pc = "loop" /\ appMode' = "APP_POWERLOSS_STATE")
          => /\ vcc' > 3000 /\ vcc' < 4600
             /\ eeprom'.settings = eeprom.settings
     /\ appMode = "APP_POWERLOSS_STATE"
          => /\ UNCHANGED eeprom
             /\ \/ appMode' = "APP_POWERLOSS_STATE" /\ pc' = pc
                \/ pc' = "reset" /\ vcc' >= 4700
             /\ vcc' < 4700 => appMode' = "APP_POWERLOSS_STATE"
     /\ (pc = "loop" /\ appMode = "APP_NORMAL_MODE"
           /\ appMode' = "APP_NORMAL_MODE")
          => UNCHANGED eeprom]_vars

\* the power loss state after the volume was raised: the EEPROM holds the
\* raised volume
C23_Witness ==
  /\ appMode = "APP_POWERLOSS_STATE"
  /\ vcc > 3000
  /\ vcc < 4600
  /\ CurrentRuntimeSettings.CurrentVolume > 0
  /\ eeprom.runtime = CurrentRuntimeSettings

\* C24: the change to standby writes the runtime settings to the EEPROM; in
\* standby no step changes the settings, the runtime settings or appMode
\* except the restart, and the restart happens only OnOffGuardMs or more
\* after the last accepted KEY_ONOFF.
C24_Standby ==
  [][/\ (appMode # "APP_STANDBY_MODE" /\ appMode' = "APP_STANDBY_MODE")
          => /\ eeprom' = [eeprom EXCEPT !.runtime = CurrentRuntimeSettings]
             /\ UNCHANGED <<CurrentSettings, CurrentRuntimeSettings>>
     /\ appMode = "APP_STANDBY_MODE"
          => \/ UNCHANGED <<CurrentSettings, CurrentRuntimeSettings, appMode,
                            eeprom>>
             \/ pc' = "reset" /\ sinceOnOff >= OnOffGuardMs]_vars

====
